---------------------------- MODULE Spec2Model ----------------------------
(***************************************************************************)
(* A model of the fixed-capacity spatial hash grid of src/src/lib.rs:      *)
(* Table<T> (a vector of slots addressed by key % len, no collision        *)
(* resolution) and SpatialHashGrid (a Table<Entry> keyed by cell, a        *)
(* Table<Map> keyed by entity id, and a shift).                            *)
(*                                                                         *)
(* Representation.                                                         *)
(*  - A u32 that carries bit 31 (an entity id, a packed id) is a record    *)
(*    [b31, low]: its value is b31 * 2^31 + low.  Cell coordinates and     *)
(*    world coordinates are naturals below 2^31.                           *)
(*  - A u64 key is a record [hi, b31, low]: hi * 2^32 + b31 * 2^31 + low.  *)
(*  - Table.entries is stored sparsely: a function from the slots that     *)
(*    hold a non-default value to that value; every other slot below len   *)
(*    holds T::default() (the empty Vec).  len is entries.len().           *)
(*  - A panic (Option::unwrap on None in delete) ends the program: the     *)
(*    state keeps what had been written and no further call is made.       *)
(***************************************************************************)
EXTENDS Integers, Sequences, FiniteSets, TLC

VARIABLES
    sg,         \* the caller's SpatialHashGrid: [grid : Table<Entry>,
                \* maps : Table<Map>, shift, panicked], panicked being TRUE
                \* once a call on it has panicked
    entities,   \* the caller's registry: the ids it inserted -> (position, radius)
    result,     \* the Vec<u32> the last call returned, if it was a query
    cleared,    \* TRUE when clear() was called and nothing inserted since
    deleted     \* <<id, n>> when the last call that wrote the grid was a
                \* delete(id) that returned, having read a Map of n cells and
                \* removed n elements; <<>> otherwise

vars == <<sg, entities, result, cleared, deleted>>

----------------------------------------------------------------------------
(* Bounds of the model.                                                    *)

\* At most this many entities are registered at once by a caller that
\* keeps the contract.
MaxLive == 3

\* A caller that does not keep the contract stops inserting once the grid
\* stores this many packed ids.
MaxStored == 5

\* The caller of the cell-range derivation places one box at coordinates up
\* to MaxCoord with a radius up to MaxRadius, on cells of side 2 and 4.
MaxCoord == 4
MaxRadius == 2

\* Table::new(size) and SpatialHashGrid::new(size, shift) arguments.
Sizes == {1}
Shifts == {4}

U32(b, n) == [b31 |-> b, low |-> n]
Id(n) == U32(0, n)

\* Entity ids the callers use: 0 and 1025 reduce to the same maps slot of
\* a table of 1025 slots.
Ids == {Id(0), Id(1), Id(2), Id(1025)}

\* World positions (x, y) and radii.  Under shift 4, (16, 64) lies in cell
\* (1, 4), which reduces to the same grid slot as cell (0, 0).
Positions == {<<0, 0>>, <<1, 1>>, <<15, 15>>, <<20, 20>>, <<16, 64>>}
Radii == {4, 8}
\* Positions, widths and heights of the probes of the properties: from (0, 0),
\* 16 x 64 reads cells (0..1, 0..4), among them (0, 0) and (1, 4).
ProbePositions == {<<0, 0>>, <<15, 15>>, <<20, 20>>, <<16, 64>>}
Widths == {16}
Heights == {64}

\* The ids and entities of the callers that do not keep the contract.
AnyIds == {Id(0), Id(1), Id(1025)}
AnyConfigs == {[pos |-> <<0, 0>>, radius |-> 4], [pos |-> <<15, 15>>, radius |-> 8],
               [pos |-> <<16, 64>>, radius |-> 4]}

\* What the caller keeps of an entity it inserted (position, radius).
Config(p, r) == [pos |-> p, radius |-> r]
\* The entities the callers insert: single-cell ones in cells (0, 0) (twice),
\* (1, 1) and (1, 4), and a multi-cell one over cells (0..1, 0..1).
Configs ==
    {Config(<<0, 0>>, 4), Config(<<1, 1>>, 4), Config(<<20, 20>>, 4),
     Config(<<16, 64>>, 4), Config(<<15, 15>>, 8)}

----------------------------------------------------------------------------
(* u32 bit operations on bit 31.                                           *)

\* v & !(1 << 31)
Mask31(v) == U32(0, v.low)
\* v & (1 << 31) != 0
HasBit31(v) == v.b31 = 1
\* Pack with the flag set whatever is_ideal is
Pack_AlwaysFlag(id, is_ideal) == U32(1, id.low)

\* id | ((is_ideal as u32) << 31)
Pack(id, is_ideal) == U32(IF is_ideal \/ id.b31 = 1 THEN 1 ELSE 0, id.low)

RECURSIVE UlpFrom(_, _, _)
UlpFrom(v, p, u) ==
    IF v < p THEN u
    ELSE IF p = 2 ^ 30 THEN 2 * u
    ELSE UlpFrom(v, 2 * p, 2 * u)
\* The distance between the f32 values around a natural v below 2^31, 1
\* where every natural is an f32 (v < 2^24): 2 from 2^24, 4 from 2^25, ..
Ulp(v) == UlpFrom(v, 2 ^ 24, 1)

\* The f32 nearest to a natural v below 2^31, ties to the even mantissa
F32Round(v) ==
    LET u == Ulp(v)
        q == v \div u
        r == v % u
    IN IF 2 * r < u THEN q * u
       ELSE IF 2 * r > u THEN (q + 1) * u
       ELSE IF q % 2 = 0 THEN q * u
       ELSE (q + 1) * u

\* a + b on f32 values that are naturals: the exact sum, rounded to f32
F32Add(a, b) == F32Round(a + b)

\* f as u32 for the integral values of the model: negative saturates to 0
AsU32(v) == IF v < 0 THEN 0 ELSE v
\* n >> s
Shr(n, s) == n \div (2 ^ s)

----------------------------------------------------------------------------
(* Table<T>                                                                *)

RECURSIVE NextPow2From(_, _)
NextPow2From(p, n) == IF p >= n THEN p ELSE NextPow2From(2 * p, n)
\* usize::next_power_of_two: the smallest power of two >= n (1 for 0)
next_power_of_two(n) == NextPow2From(1, n)

EmptyEntries == [i \in {} |-> <<>>]

\* Table::new
TableNew(size) ==
    LET capacity == next_power_of_two(size * 1000) + 1
    IN [entries |-> EmptyEntries, len |-> capacity, capacity |-> capacity]

\* Table::count
TableCount(t) == t.len

\* hash_u64: the identity
hash_u64(seed) == seed

\* vector_hash: ((x as u64) << 32) | y as u64
vector_hash(x, y) == [hi |-> x, b31 |-> 0, low |-> y]

\* s as u64
AsU64(s) == [hi |-> 0, b31 |-> s.b31, low |-> s.low]

RECURSIVE Pow2Mod(_, _)
\* 2^k % m, by halving k so that no product leaves 31 bits (m < 46341)
Pow2Mod(k, m) ==
    IF k <= 15 THEN (2 ^ k) % m
    ELSE (Pow2Mod(k \div 2, m) * Pow2Mod(k - (k \div 2), m)) % m

\* The lengths a table of the model has, and 2^31 and 2^32 reduced by each
Capacities == {next_power_of_two(size * 1000) + 1 : size \in Sizes}
Pow2ModTable == [n \in Capacities |-> [p31 |-> Pow2Mod(31, n), p32 |-> Pow2Mod(32, n)]]
TwoTo31Mod(n) == IF n \in Capacities THEN Pow2ModTable[n].p31 ELSE Pow2Mod(31, n)
TwoTo32Mod(n) == IF n \in Capacities THEN Pow2ModTable[n].p32 ELSE Pow2Mod(32, n)

\* (hi * 2^32 + b31 * 2^31 + low) % n, term by term
Reduce(k, n) ==
    ((IF k.hi = 0 THEN 0 ELSE ((k.hi % n) * TwoTo32Mod(n)) % n)
     + (IF k.b31 = 0 THEN 0 ELSE TwoTo31Mod(n))
     + (k.low % n)) % n

\* index without the reduction: the low 31 bits of the key
index_NoMod(t, idx) == hash_u64(idx).low

\* Table::index: hash_u64(idx) % entries.len()
index(t, idx) == Reduce(hash_u64(idx), t.len)

\* entries.get_unchecked(i) for i < len
Slot(t, i) == IF i \in DOMAIN t.entries THEN t.entries[i] ELSE <<>>

\* *entries.get_unchecked_mut(i) = v
SetSlot(t, i, v) ==
    LET d == IF v = <<>> THEN DOMAIN t.entries \ {i} ELSE DOMAIN t.entries \cup {i}
    IN [t EXCEPT !.entries = [j \in d |-> IF j = i THEN v ELSE t.entries[j]]]

\* Table::get_vector / get_vector_mut: the slot addressed
VectorSlot(t, x, y) == index(t, vector_hash(x, y))
get_vector(t, x, y) == Slot(t, VectorSlot(t, x, y))

\* Table::get_scalar / get_scalar_mut: the slot addressed
ScalarSlot(t, s) == index(t, hash_u64(AsU64(s)))
get_scalar(t, s) == Slot(t, ScalarSlot(t, s))

\* Table::clear without the resize: entries.clear() alone
TableClear_NoResize(t) == [t EXCEPT !.entries = EmptyEntries, !.len = 0]

\* Table::clear: entries.clear(); entries.resize(capacity, T::default())
TableClear(t) == [t EXCEPT !.entries = EmptyEntries, !.len = t.capacity]

----------------------------------------------------------------------------
(* SpatialHashGrid.  A grid value is a record [grid, maps, shift,          *)
(* panicked]; each operation is a function from grid values to grid        *)
(* values, and the actions below apply them to the state.                  *)

\* SpatialHashGrid::new
GridNew(size, sh) ==
    [grid |-> TableNew(size), maps |-> TableNew(size), shift |-> sh, panicked |-> FALSE]

\* SpatialHashGrid::count
count(g) == TableCount(g.grid)

\* The cell range of a box at `position` with the given extents:
\* sx, sy, ex, ey as insert and the two queries compute them, the far
\* corner being an f32 sum.
CellRange(sh, position, w, h) ==
    [sx |-> Shr(AsU32(position[1]), sh),
     sy |-> Shr(AsU32(position[2]), sh),
     ex |-> Shr(AsU32(F32Add(position[1], w)), sh),
     ey |-> Shr(AsU32(F32Add(position[2], h)), sh)]

\* is_ideal comparing the columns alone
IsIdeal_XOnly(rg) == rg.sx = rg.ex

\* is_ideal = sx == ex && sy == ey
IsIdeal(rg) == rg.sx = rg.ex /\ rg.sy = rg.ey

\* for y in sy..=ey { for x in sx..=ex { .. } }: the cells in the order visited
CellSeq(rg) ==
    LET nx == IF rg.ex >= rg.sx THEN rg.ex - rg.sx + 1 ELSE 0
        ny == IF rg.ey >= rg.sy THEN rg.ey - rg.sy + 1 ELSE 0
    IN [k \in 1..(nx * ny) |-> <<rg.sx + ((k - 1) % nx), rg.sy + ((k - 1) \div nx)>>]

\* The body of insert's loop recording a cell in the Map once only
InsertCell_MapOnce(g, id, packed, c) ==
    LET ms == ScalarSlot(g.maps, id)
        gs == VectorSlot(g.grid, c[1], c[2])
        map == Slot(g.maps, ms)
    IN [g EXCEPT !.maps = SetSlot(g.maps, ms,
                                  IF \E k \in 1..Len(map) : map[k] = c THEN map
                                  ELSE Append(map, c)),
                 !.grid = SetSlot(g.grid, gs, Append(Slot(g.grid, gs), packed))]

\* The body of insert's loop: map.0.push((x, y)); cell.0.push(packed)
InsertCell(g, id, packed, c) ==
    LET ms == ScalarSlot(g.maps, id)
        gs == VectorSlot(g.grid, c[1], c[2])
    IN [g EXCEPT !.maps = SetSlot(g.maps, ms, Append(Slot(g.maps, ms), c)),
                 !.grid = SetSlot(g.grid, gs, Append(Slot(g.grid, gs), packed))]

RECURSIVE InsertLoop(_, _, _, _, _)
InsertLoop(g, id, packed, cells, k) ==
    IF k > Len(cells) THEN g
    ELSE InsertLoop(InsertCell(g, id, packed, cells[k]), id, packed, cells, k + 1)

\* insert recording only the first cell of the range
insert_FirstCell(g, id, position, radius) ==
    LET dimensions == radius * 2
        rg == CellRange(g.shift, position, dimensions, dimensions)
        is_ideal == IsIdeal(rg)
    IN InsertLoop(g, id, Pack(id, is_ideal), SubSeq(CellSeq(rg), 1, 1), 1)

\* SpatialHashGrid::insert
insert(g, id, position, radius) ==
    LET dimensions == radius * 2
        rg == CellRange(g.shift, position, dimensions, dimensions)
        is_ideal == IsIdeal(rg)
    IN InsertLoop(g, id, Pack(id, is_ideal), CellSeq(rg), 1)

RECURSIVE PositionFrom(_, _, _)
PositionFrom(cell, id, k) ==
    IF k > Len(cell) THEN 0
    ELSE IF Mask31(cell[k]) = id THEN k
    ELSE PositionFrom(cell, id, k + 1)
\* cell.0.iter().position(|x| (*x & !(1 << 31)) == id): the 1-based index of
\* the first match, 0 for None
Position(cell, id) == PositionFrom(cell, id, 1)

\* Vec::remove of the first element whatever the index
Remove_Head(cell, i) == Tail(cell)

\* Vec::remove(index)
Remove(cell, i) == [k \in 1..(Len(cell) - 1) |-> IF k < i THEN cell[k] ELSE cell[k + 1]]

RECURSIVE DeleteLoop(_, _, _, _)
\* delete's loop over the Map read at entry; unwrap() on None panics
\* and leaves the cells removed so far removed
DeleteLoop(g, id, map, k) ==
    IF k > Len(map) THEN g
    ELSE LET gs == VectorSlot(g.grid, map[k][1], map[k][2])
             cell == Slot(g.grid, gs)
             i == Position(cell, id)
         IN IF i = 0 THEN [g EXCEPT !.panicked = TRUE]
            ELSE DeleteLoop([g EXCEPT !.grid = SetSlot(g.grid, gs, Remove(cell, i))],
                            id, map, k + 1)

\* delete without the final clear of the Map
delete_KeepMap(g, id) == DeleteLoop(g, id, get_scalar(g.maps, id), 1)

\* SpatialHashGrid::delete
delete(g, id) ==
    LET g1 == DeleteLoop(g, id, get_scalar(g.maps, id), 1)
    IN IF g1.panicked THEN g1
       ELSE [g1 EXCEPT !.maps = SetSlot(g1.maps, ScalarSlot(g1.maps, id), <<>>)]

\* result.contains(id)
Contains(res, v) == \E k \in 1..Len(res) : res[k] = v

\* Visit without the check for a result that already holds the id
Visit_NoDedup(res, stored, entity_id, is_ideal) ==
    IF Mask31(stored) = entity_id THEN res
    ELSE IF HasBit31(stored) \/ is_ideal THEN Append(res, Mask31(stored))
    ELSE IF stored # entity_id THEN Append(res, stored)
    ELSE res

\* Visit without the first check, which skips the querying entity
Visit_NoSelfSkip(res, stored, entity_id, is_ideal) ==
    IF HasBit31(stored) \/ is_ideal THEN Append(res, Mask31(stored))
    ELSE IF ~Contains(res, stored) /\ stored # entity_id THEN Append(res, stored)
    ELSE res

\* Visit appending the stored id as it is, flag included
Visit_NoMask(res, stored, entity_id, is_ideal) ==
    IF Mask31(stored) = entity_id THEN res
    ELSE IF HasBit31(stored) \/ is_ideal THEN Append(res, stored)
    ELSE IF ~Contains(res, stored) /\ stored # entity_id THEN Append(res, stored)
    ELSE res

\* The body of the queries' inner loop, for one stored id
Visit(res, stored, entity_id, is_ideal) ==
    IF Mask31(stored) = entity_id THEN res
    ELSE IF HasBit31(stored) \/ is_ideal THEN Append(res, Mask31(stored))
    ELSE IF ~Contains(res, stored) /\ stored # entity_id THEN Append(res, stored)
    ELSE res

RECURSIVE ScanRegion(_, _, _, _, _)
\* for id in region.0.iter() { .. }
ScanRegion(res, region, k, entity_id, is_ideal) ==
    IF k > Len(region) THEN res
    ELSE ScanRegion(Visit(res, region[k], entity_id, is_ideal), region, k + 1,
                    entity_id, is_ideal)

RECURSIVE QueryLoop(_, _, _, _, _, _)
\* the queries' loop over the cells of the probe
QueryLoop(g, res, cells, k, entity_id, is_ideal) ==
    IF k > Len(cells) THEN res
    ELSE QueryLoop(g,
                   ScanRegion(res, get_vector(g.grid, cells[k][1], cells[k][2]), 1,
                              entity_id, is_ideal),
                   cells, k + 1, entity_id, is_ideal)

\* query_radius taking twice the diameter for the extent of the probe
query_radius_Wide(g, entity_id, position, radius) ==
    LET dimensions == radius * 4
        rg == CellRange(g.shift, position, dimensions, dimensions)
    IN QueryLoop(g, <<>>, CellSeq(rg), 1, entity_id, IsIdeal(rg))

\* query_radius reading the cell of the position alone
query_radius_Point(g, entity_id, position, radius) ==
    LET rg == CellRange(g.shift, position, 0, 0)
    IN QueryLoop(g, <<>>, CellSeq(rg), 1, entity_id, IsIdeal(rg))

\* SpatialHashGrid::query_radius
query_radius(g, entity_id, position, radius) ==
    LET dimensions == radius * 2
        rg == CellRange(g.shift, position, dimensions, dimensions)
    IN QueryLoop(g, <<>>, CellSeq(rg), 1, entity_id, IsIdeal(rg))

\* query_rect's copy of the inner loop body without the check for a result
\* that already holds the id
RectVisit_NoDedup(res, stored, entity_id, is_ideal) ==
    IF Mask31(stored) = entity_id THEN res
    ELSE IF HasBit31(stored) \/ is_ideal THEN Append(res, Mask31(stored))
    ELSE IF stored # entity_id THEN Append(res, stored)
    ELSE res

\* query_rect's own copy of the inner loop body, for one stored id:
\* if (*id & !(1 << 31)) == entity_id { continue; }
\* if id & (1 << 31) != 0 || is_ideal { result.push(*id & !(1 << 31)); }
\* else if !result.contains(id) && *id != entity_id { result.push(*id); }
RectVisit(res, stored, entity_id, is_ideal) ==
    IF Mask31(stored) = entity_id THEN res
    ELSE IF HasBit31(stored) \/ is_ideal THEN Append(res, Mask31(stored))
    ELSE IF ~Contains(res, stored) /\ stored # entity_id THEN Append(res, stored)
    ELSE res

RECURSIVE RectScanRegion(_, _, _, _, _)
\* query_rect: for id in region.0.iter() { .. }
RectScanRegion(res, region, k, entity_id, is_ideal) ==
    IF k > Len(region) THEN res
    ELSE RectScanRegion(RectVisit(res, region[k], entity_id, is_ideal), region, k + 1,
                        entity_id, is_ideal)

RECURSIVE RectQueryLoop(_, _, _, _, _, _)
\* query_rect: for y in sy..=ey { for x in sx..=ex { .. } }
RectQueryLoop(g, res, cells, k, entity_id, is_ideal) ==
    IF k > Len(cells) THEN res
    ELSE RectQueryLoop(g,
                       RectScanRegion(res, get_vector(g.grid, cells[k][1], cells[k][2]),
                                      1, entity_id, is_ideal),
                       cells, k + 1, entity_id, is_ideal)

\* SpatialHashGrid::query_rect: the extents are the width and the height
\* given, and the loop is query_rect's own
query_rect(g, entity_id, position, width, height) ==
    LET rg == CellRange(g.shift, position, width, height)
    IN RectQueryLoop(g, <<>>, CellSeq(rg), 1, entity_id, IsIdeal(rg))

\* SpatialHashGrid::reinsert
reinsert(g, id, position, radius) ==
    LET g1 == delete(g, id)
    IN IF g1.panicked THEN g1 ELSE insert(g1, id, position, radius)

\* clear resetting the maps table alone
clear_MapsOnly(g) == [g EXCEPT !.maps = TableClear(g.maps)]

\* SpatialHashGrid::clear
clear(g) == [g EXCEPT !.grid = TableClear(g.grid), !.maps = TableClear(g.maps)]

----------------------------------------------------------------------------
(* The state machine: a caller holding one grid and a registry of the      *)
(* entities it inserted (the `entities` vector of examples/bench.rs).      *)

NoEntities == [i \in {} |-> Config(<<0, 0>>, 0)]
Register(reg, id, c) == [i \in DOMAIN reg \cup {id} |-> IF i = id THEN c ELSE reg[i]]
Unregister(reg, id) == [i \in DOMAIN reg \ {id} |-> reg[i]]

Init ==
    /\ \E size \in Sizes, sh \in Shifts : sg = GridNew(size, sh)
    /\ entities = NoEntities
    /\ result = <<>>
    /\ cleared = FALSE
    /\ deleted = <<>>

\* grid.insert(id, position, radius); the caller registers the entity
Insert(id, c) ==
    /\ ~sg.panicked
    /\ sg' = insert(sg, id, c.pos, c.radius)
    /\ entities' = Register(entities, id, c)
    /\ result' = <<>>
    /\ cleared' = FALSE
    /\ deleted' = <<>>

\* grid.delete(id); the caller forgets the entity unless the call panicked
Delete(id) ==
    /\ ~sg.panicked
    /\ sg' = delete(sg, id)
    /\ entities' = IF sg'.panicked THEN entities ELSE Unregister(entities, id)
    /\ result' = <<>>
    /\ cleared' = cleared
    /\ deleted' = IF sg'.panicked THEN deleted
                  ELSE <<id, Len(get_scalar(sg.maps, id))>>

\* grid.reinsert(id, position, radius)
Reinsert(id, c) ==
    /\ ~sg.panicked
    /\ sg' = reinsert(sg, id, c.pos, c.radius)
    /\ entities' = IF sg'.panicked THEN entities ELSE Register(entities, id, c)
    /\ result' = <<>>
    /\ cleared' = FALSE
    /\ deleted' = <<>>

\* grid.clear(); the caller forgets every entity
Clear ==
    /\ ~sg.panicked
    /\ sg' = clear(sg)
    /\ entities' = NoEntities
    /\ result' = <<>>
    /\ cleared' = TRUE
    /\ deleted' = <<>>

\* grid.query_radius(id, position, radius) for a registered entity, as the
\* probe loop of examples/bench.rs issues it
QueryRadius(id) ==
    /\ ~sg.panicked
    /\ id \in DOMAIN entities
    /\ result' = query_radius(sg, id, entities[id].pos, entities[id].radius)
    /\ UNCHANGED <<sg, entities, cleared, deleted>>

\* grid.query_rect(id, position, width, height) for a registered entity,
\* over the box insert gave it
QueryRect(id) ==
    /\ ~sg.panicked
    /\ id \in DOMAIN entities
    /\ result' = query_rect(sg, id, entities[id].pos,
                            entities[id].radius * 2, entities[id].radius * 2)
    /\ UNCHANGED <<sg, entities, cleared, deleted>>

\* A caller that keeps the contract of insert, delete and reinsert: an id
\* is inserted only while absent, deleted and reinserted only while present.
ContractInsert ==
    \E id \in Ids, c \in Configs :
        /\ id \notin DOMAIN entities
        /\ Cardinality(DOMAIN entities) < MaxLive
        /\ Insert(id, c)

ContractDelete == \E id \in DOMAIN entities : Delete(id)

ContractReinsert == \E id \in DOMAIN entities, c \in Configs : Reinsert(id, c)

Queries == \E id \in Ids : QueryRadius(id) \/ QueryRect(id)

Next ==
    \/ ContractInsert
    \/ ContractDelete
    \/ ContractReinsert
    \/ Clear
    \/ Queries

Spec == Init /\ [][Next]_vars

\* A caller that does not keep the contract: any id is inserted, deleted or
\* reinserted at any time.  It stops adding once the grid stores MaxStored
\* packed ids.
RECURSIVE SumLen(_, _)
SumLen(f, d) ==
    IF d = {} THEN 0
    ELSE LET i == CHOOSE j \in d : TRUE IN Len(f[i]) + SumLen(f, d \ {i})
Stored(g) == SumLen(g.grid.entries, DOMAIN g.grid.entries)

AnyInsert ==
    \E id \in AnyIds, c \in AnyConfigs :
        /\ Insert(id, c)
        /\ Stored(sg') <= MaxStored

AnyDelete == \E id \in AnyIds : Delete(id)

AnyReinsert ==
    \E id \in AnyIds, c \in AnyConfigs :
        /\ Reinsert(id, c)
        /\ Stored(sg') <= MaxStored

NextAny ==
    \/ AnyInsert
    \/ AnyDelete
    \/ AnyReinsert
    \/ Clear
    \/ Queries

SpecAny == Init /\ [][NextAny]_vars

\* A caller that places one entity on a grid of small cells, at every
\* position and radius of a small range and at coordinates from 2^24 on,
\* where the f32 sum of a coordinate and an extent is rounded: the
\* cell-range derivation and is_ideal of insert and of the queries over
\* every alignment of the box with the cells.
BoxShifts == {0, 1, 2, 4}
BoxIds == {Id(0)}
BigCoords == {16777216, 33554432, 33554444}
BoxCoords == (0..MaxCoord) \cup BigCoords
BoxConfigs ==
    {Config(<<x, y>>, r) : x \in BoxCoords, y \in BoxCoords, r \in 0..MaxRadius}

InitBox ==
    /\ \E size \in Sizes, sh \in BoxShifts : sg = GridNew(size, sh)
    /\ entities = NoEntities
    /\ result = <<>>
    /\ cleared = FALSE
    /\ deleted = <<>>

BoxInsert ==
    \E id \in BoxIds, c \in BoxConfigs :
        /\ id \notin DOMAIN entities
        /\ Insert(id, c)

NextBox ==
    \/ BoxInsert
    \/ ContractDelete
    \/ Queries

SpecBox == InitBox /\ [][NextBox]_vars

----------------------------------------------------------------------------
(* Vocabulary of the properties.                                           *)

Live == DOMAIN entities

\* The cells of a cell range, as a set
CellsOf(rg) == {<<x, y>> : x \in rg.sx..rg.ex, y \in rg.sy..rg.ey}

\* The cell range insert gave a registered entity
RangeOf(id) ==
    CellRange(sg.shift, entities[id].pos, entities[id].radius * 2,
              entities[id].radius * 2)

\* The probes of the properties: every query_radius over ProbePositions x
\* Radii and every query_rect over ProbePositions x Widths x Heights
RadiusProbes ==
    {[kind |-> "radius", pos |-> p, w |-> r, h |-> r] : p \in ProbePositions, r \in Radii}
RectProbes ==
    {[kind |-> "rect", pos |-> p, w |-> w, h |-> h] :
        p \in ProbePositions, w \in Widths, h \in Heights}
Probes == RadiusProbes \cup RectProbes

\* What the probe returns for entity_id on grid value g
Ask(g, entity_id, pr) ==
    IF pr.kind = "radius" THEN query_radius(g, entity_id, pr.pos, pr.w)
    ELSE query_rect(g, entity_id, pr.pos, pr.w, pr.h)

\* The cell range the probe reads
ProbeRange(pr) ==
    IF pr.kind = "radius" THEN CellRange(sg.shift, pr.pos, pr.w * 2, pr.w * 2)
    ELSE CellRange(sg.shift, pr.pos, pr.w, pr.h)
ProbeCells(pr) == CellsOf(ProbeRange(pr))

\* The probes a registered entity issues for itself
OwnProbes(id) ==
    {[kind |-> "radius", pos |-> entities[id].pos, w |-> entities[id].radius,
      h |-> entities[id].radius],
     [kind |-> "rect", pos |-> entities[id].pos, w |-> entities[id].radius * 2,
      h |-> entities[id].radius * 2]}

\* How many times v occurs in a result
Occurrences(res, v) == Cardinality({k \in 1..Len(res) : res[k] = v})

\* The grid slot a cell reduces to
SlotOf(c) == VectorSlot(sg.grid, c[1], c[2])
SlotsOf(cells) == {SlotOf(c) : c \in cells}

\* No two distinct cells of the set reduce to the same grid slot
AliasFree(cells) == Cardinality(SlotsOf(cells)) = Cardinality(cells)

\* The registered entities other than a whose range shares a cell with a's
Neighbours(a) ==
    {b \in Live \ {a} : CellsOf(RangeOf(a)) \cap CellsOf(RangeOf(b)) # {}}

\* res, the answer to a probe over `cells`, holds exactly once every b of bs
\* whose cells the probe covers
OnceCovered(res, cells, bs) ==
    \A b \in bs : CellsOf(RangeOf(b)) \subseteq cells => Occurrences(res, b) = 1

OnceAliasFree(res, cells, bs) ==
    AliasFree(cells) =>
        \A b \in bs :
            (CellsOf(RangeOf(b)) \cap cells # {} /\ AliasFree(CellsOf(RangeOf(b)))) =>
                Occurrences(res, b) = 1

NoneDisjoint(res, a) ==
    \A b \in Live \ {a} :
        CellsOf(RangeOf(a)) \cap CellsOf(RangeOf(b)) = {} => ~Contains(res, b)

\* C2 as stated: for registered entities A and B whose cell ranges share no
\* cell, the query A issues over its own box never returns B (and, A and B
\* ranging over all pairs, the query B issues never returns A).
C2_DisjointNeverReturned ==
    ~sg.panicked =>
        \A a \in Live : \A pr \in OwnProbes(a) : NoneDisjoint(Ask(sg, a, pr), a)

\* res, an answer to a, holds no b of the registered entities whose cells
\* are none of a's and reduce to none of the grid slots of a's cells
NoneDisjointAliasFree(res, a) ==
    \A b \in Live \ {a} :
        ( /\ CellsOf(RangeOf(a)) \cap CellsOf(RangeOf(b)) = {}
          /\ SlotsOf(CellsOf(RangeOf(a))) \cap SlotsOf(CellsOf(RangeOf(b))) = {} ) =>
            ~Contains(res, b)

\* C2 amended: for registered entities A and B whose cell ranges share no
\* cell and no cell of A's range reduces to the same grid slot as a cell of
\* B's range, the query A issues over its own box never returns B, and the
\* query B issues never returns A.
C2_DisjointNeverReturnedAliasFree ==
    ~sg.panicked =>
        \A a \in Live : \A pr \in OwnProbes(a) : NoneDisjointAliasFree(Ask(sg, a, pr), a)

\* Witness of C2: two entities in cells (0, 0) and (1, 1) and a third one are
\* registered, and the query one of the three issued returned only the third.
C2_Witness ==
    \E a, b, c \in Live :
        /\ Live = {a, b, c} /\ a # b /\ b # c /\ a # c
        /\ CellsOf(RangeOf(a)) = {<<0, 0>>}
        /\ CellsOf(RangeOf(b)) = {<<1, 1>>}
        /\ CellsOf(RangeOf(c)) = {<<0, 0>>}
        /\ result = <<c>>

\* The answers of g and h to every probe of every id but `id` are the same
SameAnswers(g, h, id) ==
    \A e \in Ids \ {id} : \A pr \in Probes : Ask(g, e, pr) = Ask(h, e, pr)

\* delete(id) returned on g2 and left every answer as it is on the state
Restored(g2, id) == ~g2.panicked /\ SameAnswers(g2, sg, id)

\* C3 as stated: from any state a caller keeping the contract reaches, with
\* id not registered, insert(id, p, r) followed by delete(id) returns and
\* leaves every query of every other entity with the answer it had.
C3_InsertDeleteRestores ==
    ~sg.panicked =>
        \A id \in Ids \ Live : \A c \in Configs :
            Restored(delete(insert(sg, id, c.pos, c.radius), id), id)

\* C4 as stated: delete(id) and reinsert(id, p, r) of an id that is not
\* registered (never inserted, or deleted since) panic.
C4_AbsentPanics ==
    ~sg.panicked =>
        \A id \in AnyIds \ Live :
            /\ delete(sg, id).panicked
            /\ \A c \in AnyConfigs : reinsert(sg, id, c.pos, c.radius).panicked

\* C5 as stated: no call of a caller that keeps the contract panics.
C5_NeverPanics == ~sg.panicked

\* Every probe of every id returns the empty sequence on g
AllEmpty(g) == \A e \in Ids \cup AnyIds : \A pr \in Probes : Ask(g, e, pr) = <<>>

\* C6: whenever clear() was called and nothing was inserted since, every
\* query_radius and query_rect of every id over every probe returns the empty
\* sequence; and count() is after every clear() what it was before it.
C6_ClearEmpties ==
    /\ [](cleared => AllEmpty(sg))
    /\ [][(~sg.panicked /\ sg' = clear(sg)) => count(sg') = count(sg)]_vars

\* Witness of C6: clear() was called, nothing was inserted since, and the
\* grid holds nothing in its 1025 slots.
C6_Witness ==
    /\ cleared
    /\ sg.grid.entries = EmptyEntries
    /\ count(sg) = 1025

\* Two results hold the same ids, each as many times
SameBag(r1, r2) ==
    /\ Len(r1) = Len(r2)
    /\ \A k \in 1..Len(r1) : Occurrences(r1, r1[k]) = Occurrences(r2, r1[k])

\* The answers of g to every probe of every id hold the same ids, each as
\* many times, as the answers of the state
SameBags(g) ==
    \A e \in Ids : \A pr \in Probes : SameBag(Ask(g, e, pr), Ask(sg, e, pr))

\* C7 as stated: reinsert(id, p, r) of an entity registered at (p, r) returns
\* and leaves every query of every id with the same ids, each as many times.
C7_ReinsertSamePlace ==
    [][\A id \in Live :
          (~sg.panicked /\ sg' = reinsert(sg, id, entities[id].pos, entities[id].radius))
              => (~sg'.panicked /\ SameBags(sg'))]_vars

\* res, the answer to a probe of e over `cells`, holds every registered
\* entity other than e that has a cell among them
Complete(res, e, cells) ==
    \A b \in Live \ {e} : CellsOf(RangeOf(b)) \cap cells # {} => Contains(res, b)

\* The registry after insert(0, (0, 0), 4), insert(1, (20, 20), 4),
\* insert(2, (1, 1), 4)
Scenario ==
    (Id(0) :> Config(<<0, 0>>, 4)) @@ (Id(1) :> Config(<<20, 20>>, 4))
        @@ (Id(2) :> Config(<<1, 1>>, 4))

\* C8: every registered entity other than entity_id whose cell range meets
\* the probe's cell range is in the result of query_radius and query_rect;
\* and with entities 0, 1, 2 registered at (0, 0), (20, 20), (1, 1), radius 4,
\* query_radius(0, (0, 0), 4) is [2] and query_radius(2, (1, 1), 4) is [0].
C8_Complete ==
    ~sg.panicked =>
        /\ \A e \in Ids : \A pr \in Probes : Complete(Ask(sg, e, pr), e, ProbeCells(pr))
        /\ entities = Scenario =>
              /\ query_radius(sg, Id(0), <<0, 0>>, 4) = <<Id(2)>>
              /\ query_radius(sg, Id(2), <<1, 1>>, 4) = <<Id(0)>>

\* Witness of C8: entities 0, 1, 2 are registered as in the scenario and the
\* last query, which only entity 0 can have issued, returned [2].
C8_Witness == entities = Scenario /\ result = <<Id(2)>>

\* C9: no query_radius and no query_rect of an id below 2^31 returns that
\* id, over any probe, whatever the calls made before.
C9_SelfExcluded ==
    ~sg.panicked =>
        \A e \in Ids \cup AnyIds : \A pr \in Probes : ~Contains(Ask(sg, e, pr), e)

\* Witness of C9: a multi-cell entity and a single-cell entity are stored,
\* and the query the multi-cell one issued over its own four buckets returned
\* the other alone.
C9_Witness ==
    \E e, f \in Live :
        /\ Live = {e, f} /\ e # f
        /\ ~IsIdeal(RangeOf(e)) /\ IsIdeal(RangeOf(f))
        /\ \A c \in CellsOf(RangeOf(e)) : Contains(get_vector(sg.grid, c[1], c[2]), e)
        /\ result = <<f>>

\* The packed ids stored in the grid
StoredIds == UNION {{sg.grid.entries[i][k] : k \in 1..Len(sg.grid.entries[i])} :
                    i \in DOMAIN sg.grid.entries}

\* C10 as stated: every packed id stored in a bucket has bit 31 set if and
\* only if the Map of its entity holds exactly one cell.
C10_FlagIffOneCellMap ==
    ~sg.panicked =>
        \A v \in StoredIds : HasBit31(v) <=> Len(get_scalar(sg.maps, Mask31(v))) = 1

\* No other registered id reduces to the maps slot of id
MapAliasFree(id) ==
    \A o \in Live \ {id} : ScalarSlot(sg.maps, o) # ScalarSlot(sg.maps, id)

\* C10 amended: every packed id stored in a bucket is that of a registered
\* entity and has bit 31 set if and only if the cell range insert gave the
\* entity is one cell, and, when no other registered id reduces to the same
\* maps slot, if and only if its Map holds exactly one cell; every
\* registered entity is stored so in the bucket of each of its cells.
C10_FlagIffOneCell ==
    ~sg.panicked =>
        /\ \A v \in StoredIds :
              /\ Mask31(v) \in Live
              /\ HasBit31(v) <=> IsIdeal(RangeOf(Mask31(v)))
              /\ MapAliasFree(Mask31(v)) =>
                    (HasBit31(v) <=> Len(get_scalar(sg.maps, Mask31(v))) = 1)
        /\ \A id \in Live : \A c \in CellsOf(RangeOf(id)) :
              Contains(get_vector(sg.grid, c[1], c[2]), Pack(id, IsIdeal(RangeOf(id))))

\* Witness of C10: an entity registered at (15, 15) with radius 8 is stored
\* in the buckets of its four cells with bit 31 clear, beside a single-cell
\* entity stored with bit 31 set.
C10_Witness ==
    \E id, o \in Live :
        /\ entities[id] = Config(<<15, 15>>, 8)
        /\ Cardinality(CellsOf(RangeOf(id))) = 4
        /\ \A c \in CellsOf(RangeOf(id)) : Contains(get_vector(sg.grid, c[1], c[2]), id)
        /\ U32(1, o.low) \in StoredIds

\* The half-open interval [lo, lo + extent) lies within one cell of side
\* 2^sh: it is empty, or it ends no further than the cell lo is in
HalfOpenInOneCell(lo, extent, sh) ==
    extent = 0 \/ (lo % (2 ^ sh)) + extent <= 2 ^ sh

\* The closed interval [lo, hi] lies within one cell of side 2^sh: hi is
\* before the end of the cell lo is in
ClosedInOneCell(lo, hi, sh) == (lo % (2 ^ sh)) + (hi - lo) < 2 ^ sh

\* The is_ideal insert computed for a registered entity, read back from the
\* flag of the packed id it stored in the bucket of its first cell
StoredIdeal(id) ==
    \E k \in 1..Len(get_vector(sg.grid, RangeOf(id).sx, RangeOf(id).sy)) :
        LET v == get_vector(sg.grid, RangeOf(id).sx, RangeOf(id).sy)[k]
        IN Mask31(v) = id /\ HasBit31(v)

\* The is_ideal the queries a registered entity issues over its box compute
ProbeIdeal(id) ==
    /\ IsIdeal(CellRange(sg.shift, entities[id].pos, entities[id].radius * 2,
                         entities[id].radius * 2))
    /\ \A pr \in OwnProbes(id) : IsIdeal(ProbeRange(pr))

\* C11 as stated: the is_ideal that insert and the queries compute for the
\* box of a registered entity at (x, y) with extent 2 * radius is true exactly
\* when [x, x + extent) x [y, y + extent) lies within a single cell of side
\* 2^shift.
C11_IdealIffHalfOpenBox ==
    \A id \in Live :
        LET x == entities[id].pos[1]
            y == entities[id].pos[2]
            extent == entities[id].radius * 2
            one == HalfOpenInOneCell(x, extent, sg.shift)
                   /\ HalfOpenInOneCell(y, extent, sg.shift)
        IN (StoredIdeal(id) <=> one) /\ (ProbeIdeal(id) <=> one)

\* C11 amended: the is_ideal that insert and the queries compute for the box
\* of a registered entity at (x, y) with extent 2 * radius is true exactly
\* when the closed box from (x, y) to the far corner, the f32 sums
\* (x + extent, y + extent), lies within a single cell of side 2^shift; the
\* sums are exact below 2^24, where the box is [x, x + extent] x
\* [y, y + extent].
C11_IdealIffClosedBox ==
    \A id \in Live :
        LET x == entities[id].pos[1]
            y == entities[id].pos[2]
            extent == entities[id].radius * 2
            one == ClosedInOneCell(x, F32Add(x, extent), sg.shift)
                   /\ ClosedInOneCell(y, F32Add(y, extent), sg.shift)
        IN /\ (StoredIdeal(id) <=> one) /\ (ProbeIdeal(id) <=> one)
           /\ (x + extent < 2 ^ 24 /\ y + extent < 2 ^ 24) =>
                 (one <=> (ClosedInOneCell(x, x + extent, sg.shift)
                           /\ ClosedInOneCell(y, y + extent, sg.shift)))

\* The exact closed box: is_ideal is true exactly when [x, x + extent] x
\* [y, y + extent] lies within a single cell, at every coordinate
IdealIffExactClosedBox ==
    \A id \in Live :
        LET x == entities[id].pos[1]
            y == entities[id].pos[2]
            extent == entities[id].radius * 2
        IN StoredIdeal(id) <=> (ClosedInOneCell(x, x + extent, sg.shift)
                                /\ ClosedInOneCell(y, y + extent, sg.shift))

\* Witness of C11: on cells of side 2, the entity at (0, 0) with radius 1,
\* whose box ends on the boundary of cell (0, 0), is stored with bit 31 clear
\* in the buckets of four cells.
C11_Witness ==
    /\ sg.shift = 1
    /\ Id(0) \in Live
    /\ entities[Id(0)] = Config(<<0, 0>>, 1)
    /\ \A c \in {<<0, 0>>, <<1, 0>>, <<0, 1>>, <<1, 1>>} :
          get_vector(sg.grid, c[1], c[2]) = <<Id(0)>>

\* Table t holds exactly n slots, the non-default ones among them
HoldsSlots(t, n) == TableCount(t) = n /\ DOMAIN t.entries \subseteq 0..(n - 1)

\* C12: count() is next_power_of_two(size * 1000) + 1 for the size the grid
\* was built with, after construction and after every insert, delete,
\* reinsert, clear and query, and the grid table and the maps table both
\* hold exactly that many slots.
C12_CapacityFixed ==
    \E size \in Sizes :
        /\ size > 0
        /\ count(sg) = next_power_of_two(size * 1000) + 1
        /\ HoldsSlots(sg.grid, next_power_of_two(size * 1000) + 1)
        /\ HoldsSlots(sg.maps, next_power_of_two(size * 1000) + 1)

\* Witness of C12: clear() was called on a grid of 1025 slots, a delete
\* returned after it, and the grid still counts 1025 slots.
C12_Witness ==
    /\ cleared
    /\ deleted # <<>>
    /\ ~sg.panicked
    /\ count(sg) = 1025
    /\ TableCount(sg.maps) = 1025

\* No bucket of the grid holds an element whose low 31 bits are id
NotStored(id) == \A v \in StoredIds : Mask31(v) # id

\* No probe of any id returns id
NotReturned(id) == \A e \in Ids : \A pr \in Probes : ~Contains(Ask(sg, e, pr), id)

\* C13: when delete(id) of an entity inserted once has returned, the Map of
\* id is empty; and from then until id is inserted again (while id is not
\* registered) no bucket holds an element whose low 31 bits are id and no
\* query_radius or query_rect returns id.
C13_DeletedGone ==
    ~sg.panicked =>
        /\ deleted # <<>> => get_scalar(sg.maps, deleted[1]) = <<>>
        /\ \A id \in Ids \ Live : NotStored(id) /\ NotReturned(id)

\* Witness of C13: delete(1) returned, having removed entity 1 from four
\* buckets, entities 0 and 2 remain registered, and the query issued since
\* returned entity 2 alone.
C13_Witness ==
    /\ deleted = <<Id(1), 4>>
    /\ Live = {Id(0), Id(2)}
    /\ get_scalar(sg.maps, Id(1)) = <<>>
    /\ result = <<Id(2)>>

\* The elements of a bucket whose low 31 bits differ from id, in order
Others(cell, id) == SelectSeq(cell, LAMBDA v : Mask31(v) # id)

\* From grid value g to grid value h: in every bucket the elements of the ids
\* other than id are the same in the same order, every maps slot but the one
\* id reduces to is the same, and so is the Map of every other id of `others`
FrameOf(g, h, id, others) ==
    /\ \A i \in DOMAIN g.grid.entries \cup DOMAIN h.grid.entries :
          Others(Slot(h.grid, i), id) = Others(Slot(g.grid, i), id)
    /\ \A i \in (DOMAIN g.maps.entries \cup DOMAIN h.maps.entries)
                  \ {ScalarSlot(g.maps, id)} :
          Slot(h.maps, i) = Slot(g.maps, i)
    /\ \A o \in others \ {id} : get_scalar(h.maps, o) = get_scalar(g.maps, o)

\* C14: whenever delete(id) returns normally, every bucket keeps the elements
\* whose low 31 bits differ from id, in the same order, and the Map of every
\* other registered entity is unchanged.
C14_DeleteFrame ==
    [][\A id \in AnyIds :
          (~sg.panicked /\ sg' = delete(sg, id) /\ ~sg'.panicked)
              => FrameOf(sg, sg', id, Live)]_vars

\* Witness of C14: delete(1) returned, having removed entity 1 from one
\* bucket, and the bucket of cell (0, 0) holds entities 0 and 1025 in the
\* order of their insertion, their Map holding the two cells recorded.
C14_Witness ==
    /\ deleted = <<Id(1), 1>>
    /\ ~sg.panicked
    /\ get_vector(sg.grid, 0, 0) = <<U32(1, 0), U32(1, 1025)>>
    /\ get_scalar(sg.maps, Id(0)) = <<<<0, 0>>, <<0, 0>>>>

\* Cell coordinates and ids whose keys are below, at and far above the
\* number of slots
KeyCoords == {0, 1, 4, 1024, 1025, 65535, 2147483647}
KeyIds == {U32(b, n) : b \in {0, 1}, n \in {0, 1, 1024, 1025, 2147483647}}

\* Table t has a slot for every key: index is below entries.len() for the
\* keys of get_vector and get_scalar (and their _mut variants), and every
\* slot written so far is below it
InBounds(t) ==
    /\ t.len > 0
    /\ \A x \in KeyCoords, y \in KeyCoords : VectorSlot(t, x, y) \in 0..(t.len - 1)
    /\ \A v \in KeyIds : ScalarSlot(t, v) \in 0..(t.len - 1)
    /\ DOMAIN t.entries \subseteq 0..(t.len - 1)

\* C15: in every state of the two tables, after new and after any number
\* of clear calls, index(key) is below the number of slots for every key of
\* get_vector(x, y) and get_scalar(s), so that no unchecked access is out
\* of range.
C15_InBounds == InBounds(sg.grid) /\ InBounds(sg.maps)

\* Witness of C15: entity 1025 at (16, 64), whose id and whose cell (1, 4)
\* both reduce to slot 0, is stored alone, in slot 0 of both tables.
C15_Witness ==
    /\ ~sg.panicked
    /\ Live = {Id(1025)}
    /\ entities[Id(1025)] = Config(<<16, 64>>, 4)
    /\ DOMAIN sg.grid.entries = {0}
    /\ DOMAIN sg.maps.entries = {0}

\* No id of a result has bit 31 set
NoFlag(res) == \A k \in 1..Len(res) : ~HasBit31(res[k])

\* C16: every id that query_radius and query_rect return has bit 31 clear,
\* whether it was appended by the unconditional branch or by the
\* de-duplicating one, the ids inserted being below 2^31.
C16_ResultUnpacked ==
    ~sg.panicked =>
        /\ NoFlag(result)
        /\ \A e \in Ids : \A pr \in Probes : NoFlag(Ask(sg, e, pr))

\* Witness of C16: two multi-cell entities and a single-cell one are
\* registered, and the query of a multi-cell one returned the other, stored
\* with bit 31 clear, and the single-cell one, stored with bit 31 set.
C16_Witness ==
    \E a, b, c \in Live :
        /\ Live = {a, b, c}
        /\ ~IsIdeal(RangeOf(a)) /\ ~IsIdeal(RangeOf(b)) /\ IsIdeal(RangeOf(c))
        /\ U32(0, b.low) \in StoredIds
        /\ U32(1, c.low) \in StoredIds
        /\ Len(result) = 2
        /\ Contains(result, b) /\ Contains(result, c)

\* The cell coordinates recorded over all the slots of the maps table
Recorded(g) == SumLen(g.maps.entries, DOMAIN g.maps.entries)

\* C17: after any sequence of insert, delete, reinsert and clear calls of
\* which none panicked, the grid table stores as many packed ids as the
\* maps table records cell coordinates, slot aliasing and double insertion
\* included.
C17_Balance == ~sg.panicked => Stored(sg) = Recorded(sg)

\* Witness of C17: entity 0 was inserted twice in cell (0, 0) and entity
\* 1025, which shares its Map, once; the bucket holds three packed ids and
\* the Map three cells.
C17_Witness ==
    /\ ~sg.panicked
    /\ get_vector(sg.grid, 0, 0) = <<U32(1, 0), U32(1, 0), U32(1, 1025)>>
    /\ Len(get_scalar(sg.maps, Id(0))) = 3

\* What query_radius returns to a registered entity over its own box
OwnAnswer(a) == query_radius(sg, a, entities[a].pos, entities[a].radius)

\* C18: for distinct registered entities A and B, each inserted once,
\* query_radius(A, pA, rA) holds B if and only if query_radius(B, pB, rB)
\* holds A.
C18_Symmetric ==
    ~sg.panicked =>
        \A a \in Live : \A b \in Live \ {a} :
            Contains(OwnAnswer(a), b) <=> Contains(OwnAnswer(b), a)

\* Witness of C18: a multi-cell entity at (15, 15) and a single-cell one at
\* (20, 20) are registered with a third, and the query of the single-cell
\* one returned the multi-cell one alone, whose own answer holds it back.
C18_Witness ==
    \E a, b \in Live :
        /\ Cardinality(Live) = 3
        /\ entities[a] = Config(<<15, 15>>, 8)
        /\ entities[b] = Config(<<20, 20>>, 4)
        /\ result = <<a>>
        /\ OwnAnswer(b) = <<a>>
        /\ Contains(OwnAnswer(a), b)

\* C19: for every entity_id, position and radius, query_radius(entity_id,
\* position, radius), which doubles the radius and runs its loop, returns
\* the same sequence as query_rect(entity_id, position, 2 * radius,
\* 2 * radius), which takes the extents as given and runs its own loop.
C19_RadiusIsRect ==
    ~sg.panicked =>
        \A e \in Ids : \A p \in ProbePositions : \A r \in Radii :
            query_radius(sg, e, p, r) = query_rect(sg, e, p, 2 * r, 2 * r)

\* Witness of C19: a multi-cell entity b is stored with bit 31 clear in the
\* four buckets a probe of radius 8 from (0, 0) reads; query_radius and
\* query_rect both return it once to a single-cell entity e, and the query e
\* issued over its own cell returned it too.
C19_Witness ==
    \E e, b \in Live :
        /\ e # b
        /\ IsIdeal(RangeOf(e)) /\ ~IsIdeal(RangeOf(b))
        /\ \A c \in {<<0, 0>>, <<1, 0>>, <<0, 1>>, <<1, 1>>} :
              Contains(get_vector(sg.grid, c[1], c[2]), b)
        /\ query_radius(sg, e, <<0, 0>>, 8) = <<b>>
        /\ query_rect(sg, e, <<0, 0>>, 16, 16) = <<b>>
        /\ result = <<b>>

=============================================================================
